---- MODULE Spec2Model ----
(***************************************************************************)
(* Model of zenryukyo/tools/build_gallery.py: the manual image-size        *)
(* parsers (JPEG, PNG, WebP), the Pillow-or-manual dimension resolver and  *)
(* the gallery manifest builder.                                           *)
(*                                                                         *)
(* Files are sequences of bytes (0..255); names are sequences of ASCII     *)
(* codes, so that Path.suffix, str.lower and sorted() are modelled by what *)
(* they do.  File offsets are 0-based as in Python; At/Slice translate to  *)
(* the 1-based sequences of TLA+.                                          *)
(***************************************************************************)
EXTENDS Integers, Sequences, FiniteSets, TLC

\* ------------------------------------------------------------ bytes

Min(a, b) == IF a < b THEN a ELSE b

Max(a, b) == IF a > b THEN a ELSE b

\* data[i] for a 0-based offset i < len(data)
At(data, i) == data[i + 1]

\* Python's data[a:b] for 0 <= a <= b: clipped to the bytes that exist
Slice(data, a, b) == SubSeq(data, Min(a, Len(data)) + 1, Min(b, Len(data)))

\* fp.read(n) at offset pos: the bytes that are there, fewer (or none) at the end
Read(data, pos, n) == Slice(data, pos, pos + n)

RECURSIVE FromBytesBig(_)
\* int.from_bytes(s, 'big'); the empty string is 0
FromBytesBig(s) ==
  IF s = <<>> THEN 0
  ELSE FromBytesBig(SubSeq(s, 1, Len(s) - 1)) * 256 + s[Len(s)]

RECURSIVE FromBytesLittle(_)
\* int.from_bytes(s, 'little'); the empty string is 0
FromBytesLittle(s) ==
  IF s = <<>> THEN 0
  ELSE s[1] + 256 * FromBytesLittle(SubSeq(s, 2, Len(s)))

\* ------------------------------------------------------------ names

\* str.lower() on ASCII: 'A'..'Z' (65..90) become 'a'..'z'
Lower(s) == [i \in 1..Len(s) |-> IF s[i] >= 65 /\ s[i] <= 90 THEN s[i] + 32 ELSE s[i]]

\* str.rfind('.') as a 1-based index, 0 when there is no dot
RFindDot(name) ==
  LET dots == {i \in 1..Len(name) : name[i] = 46}
  IN  IF dots = {} THEN 0 ELSE CHOOSE i \in dots : \A j \in dots : j <= i

\* PurePath.suffix: from the last dot on, unless the dot leads or ends the name
Suffix(name) ==
  LET i == RFindDot(name)
  IN  IF i > 1 /\ i < Len(name) THEN SubSeq(name, i, Len(name)) ELSE <<>>

\* PurePath.stem: the name without its suffix
Stem(name) ==
  LET i == RFindDot(name)
  IN  IF i > 1 /\ i < Len(name) THEN SubSeq(name, 1, i - 1) ELSE name

ExtJpg  == <<46, 106, 112, 103>>
ExtJpeg == <<46, 106, 112, 101, 103>>
ExtPng  == <<46, 112, 110, 103>>
ExtWebp == <<46, 119, 101, 98, 112>>

SUPPORTED_EXTENSIONS == {ExtJpg, ExtJpeg, ExtPng, ExtWebp}

\* describe_alt: '_' (95) and '-' (45) of the stem become ' ' (32)
describe_alt(name) ==
  LET stem == Stem(name)
  IN  [i \in 1..Len(stem) |-> IF stem[i] = 95 \/ stem[i] = 45 THEN 32 ELSE stem[i]]

\* ------------------------------------------------------------ results

\* a returned (width, height)
Ok(w, h) == [ok |-> TRUE, w |-> w, h |-> h, err |-> ""]

\* a raised ValueError(msg)
Raise(msg) == [ok |-> FALSE, w |-> 0, h |-> 0, err |-> msg]

ErrNotJpeg == "Not a JPEG file"
ErrJpegDims == "Could not determine JPEG dimensions"
ErrNotPng == "Not a PNG file"
ErrNotWebp == "Not a WebP file"
ErrWebpDims == "Could not determine WebP dimensions"
ErrUnsupported == "Unsupported format"

\* ------------------------------------------------------------ JPEG

JPEG_SOI == <<255, 216>>

JPEG_START_OF_FRAME_MARKERS ==
  {192, 193, 194, 195, 197, 198, 199, 201, 202, 203, 205, 206, 207}

RECURSIVE SkipFF(_, _)
\* `while marker and marker[0] == 0xFF: marker = fp.read(1)`, entered with the
\* first marker byte read from offset q: the offset of the byte the loop ends on
\* (Len(data) or more: the read came back empty)
SkipFF(data, q) ==
  IF q < Len(data) /\ At(data, q) = 255 THEN SkipFF(data, q + 1) ELSE q

\* mutant: the seek made absolute (os.SEEK_SET), so the scan can jump back
SeekSet(pos, offset) == offset

\* fp.seek(offset, os.SEEK_CUR) with the file offset at pos: the new offset
SeekCur(pos, offset) == pos + offset

\* One iteration of the `while True` scan with the file offset at pos.
\* [done |-> FALSE, pos]: `continue` or the end of the body, offset moved to pos;
\* [done |-> TRUE, res, sof]: left the loop, by `return` (res.ok) or by `break`
\* (the raise after the loop); sof: a start-of-frame marker code was met.
JpegIteration(data, pos) ==
  LET brk(sof) == [done |-> TRUE, pos |-> pos, res |-> Raise(ErrJpegDims), sof |-> sof]
  IN
  IF Read(data, pos, 1) = <<>> THEN brk(FALSE)
  ELSE IF At(data, pos) # 255
    THEN [done |-> FALSE, pos |-> pos + 1, res |-> Raise(""), sof |-> FALSE]
  ELSE
    LET q == SkipFF(data, pos + 1)
    IN
    IF q >= Len(data) THEN brk(FALSE)
    ELSE
      LET marker_value == At(data, q)
          length_bytes == Read(data, q + 1, 2)
          length == FromBytesBig(length_bytes)
      IN
      IF marker_value \in JPEG_START_OF_FRAME_MARKERS
        THEN IF Len(length_bytes) # 2 THEN brk(TRUE)
             ELSE [done |-> TRUE, pos |-> pos,
                   res |-> Ok(FromBytesBig(Read(data, q + 6, 2)),
                              FromBytesBig(Read(data, q + 4, 2))),
                   sof |-> TRUE]
      ELSE IF Len(length_bytes) # 2 THEN brk(FALSE)
      ELSE [done |-> FALSE, pos |-> SeekCur(q + 3, Max(length - 2, 0)),
            res |-> Raise(""), sof |-> FALSE]

RECURSIVE JpegScan(_, _)
\* the `while True` loop run from offset pos to its return or break
JpegScan(data, pos) ==
  LET it == JpegIteration(data, pos)
  IN  IF it.done THEN it.res ELSE JpegScan(data, it.pos)

\* read_image_size, the .jpg/.jpeg branch
ReadJpeg(data) ==
  IF Read(data, 0, 2) # JPEG_SOI THEN Raise(ErrNotJpeg) ELSE JpegScan(data, 2)

\* ------------------------------------------------------------ PNG

PNG_SIGNATURE == <<137, 80, 78, 71, 13, 10, 26, 10>>

\* read_image_size, the .png branch
ReadPng(data) ==
  LET header == Read(data, 0, 24)
  IN  IF Slice(header, 0, 8) # PNG_SIGNATURE THEN Raise(ErrNotPng)
      ELSE Ok(FromBytesBig(Slice(header, 16, 20)), FromBytesBig(Slice(header, 20, 24)))

\* ------------------------------------------------------------ WebP

TagRIFF == <<82, 73, 70, 70>>
TagWEBP == <<87, 69, 66, 80>>
TagVP8X == <<86, 80, 56, 88>>
TagVP8  == <<86, 80, 56, 32>>
TagVP8L == <<86, 80, 56, 76>>

RECURSIVE WebpChunks(_, _)
\* the chunk loop with the file offset at pos
WebpChunks(data, pos) ==
  LET chunk_header == Read(data, pos, 8)
      chunk_type == Slice(chunk_header, 0, 4)
      chunk_size == FromBytesLittle(Slice(chunk_header, 4, 8))
      padded == chunk_size + (chunk_size % 2)
      chunk_data == Read(data, pos + 8, padded)
  IN
  IF Len(chunk_header) < 8 THEN Raise(ErrWebpDims)
  ELSE IF chunk_type = TagVP8X /\ Len(chunk_data) >= 10
    THEN Ok(1 + FromBytesLittle(Slice(chunk_data, 4, 7)),
             1 + FromBytesLittle(Slice(chunk_data, 7, 10)))
  ELSE IF chunk_type = TagVP8 /\ Len(chunk_data) >= 10
    THEN Ok(At(chunk_data, 6) + At(chunk_data, 7) * 256,
             At(chunk_data, 8) + At(chunk_data, 9) * 256)
  ELSE IF chunk_type = TagVP8L /\ Len(chunk_data) >= 5
    THEN LET bits == FromBytesLittle(Slice(chunk_data, 0, 4))
         IN  Ok((bits % 16384) + 1, ((bits \div 16384) % 16384) + 1)
  ELSE WebpChunks(data, pos + 8 + Len(chunk_data))

\* read_image_size, the .webp branch
ReadWebp(data) ==
  LET header == Read(data, 0, 12)
  IN  IF Slice(header, 0, 4) # TagRIFF \/ Slice(header, 8, 12) # TagWEBP
        THEN Raise(ErrNotWebp)
        ELSE WebpChunks(data, 12)

\* ------------------------------------------------------------ resolver

\* read_image_size(path): the parser chosen by the lowercased suffix
read_image_size(name, data) ==
  LET suffix == Lower(Suffix(name))
  IN  IF suffix \in {ExtJpg, ExtJpeg} THEN ReadJpeg(data)
      ELSE IF suffix = ExtPng THEN ReadPng(data)
      ELSE IF suffix = ExtWebp THEN ReadWebp(data)
      ELSE Raise(ErrUnsupported)

\* What Image.open(path) does with a file: raises, or reports (w, h)
PilRaise == [ok |-> FALSE, w |-> 0, h |-> 0]

PilOk(w, h) == [ok |-> TRUE, w |-> w, h |-> h]

\* mutant: a Pillow failure is raised to the caller instead of falling back
get_image_dimensions_no_fallback(have_pillow, pil, name, data) ==
  IF have_pillow
    THEN [res |-> IF pil.ok THEN Ok(pil.w, pil.h) ELSE Raise("Pillow failed"),
          manual_called |-> FALSE]
    ELSE [res |-> read_image_size(name, data), manual_called |-> TRUE]

\* get_image_dimensions(path): Pillow when it is installed (have_pillow: `Image
\* is not None`) and opens the file, the manual parser otherwise;
\* manual_called: read_image_size was invoked
get_image_dimensions(have_pillow, pil, name, data) ==
  IF have_pillow /\ pil.ok
    THEN [res |-> Ok(pil.w, pil.h), manual_called |-> FALSE]
    ELSE [res |-> read_image_size(name, data), manual_called |-> TRUE]

\* ------------------------------------------------------------ encoders
\* Byte layouts of well-formed files, used to build the inputs the parsers
\* are run on (whole, truncated, or with a wrong signature).

U16LE(v) == <<v % 256, (v \div 256) % 256>>

U16BE(v) == <<(v \div 256) % 256, v % 256>>

U24LE(v) == <<v % 256, (v \div 256) % 256, (v \div 65536) % 256>>

U32LE(v) == <<v % 256, (v \div 256) % 256, (v \div 65536) % 256, (v \div 16777216) % 256>>

U32BE(v) == <<(v \div 16777216) % 256, (v \div 65536) % 256, (v \div 256) % 256, v % 256>>

\* the first n bytes of s (all of s when it is shorter)
Take(s, n) == SubSeq(s, 1, Min(n, Len(s)))

\* signature, IHDR chunk length and type, width, height, bit depth: 25 bytes
PngFile(sig, w, h) ==
  sig \o <<0, 0, 0, 13, 73, 72, 68, 82>> \o U32BE(w) \o U32BE(h) \o <<8>>

\* an APP0-like segment of the given declared length and the body bytes that follow
JpegSegment(marker, length, body) == <<255, marker>> \o U16BE(length) \o body

\* a start-of-frame segment: length, precision, height, width, one component byte
JpegSof(marker, w, h) == <<255, marker>> \o U16BE(8) \o <<8>> \o U16BE(h) \o U16BE(w) \o <<1>>

\* VP8X payload: flags, 3 reserved bytes, width-1 and height-1 as 24-bit values
PayloadVP8X(w, h) == <<0, 0, 0, 0>> \o U24LE(w - 1) \o U24LE(h - 1)

\* VP8 key-frame header: 3-byte frame tag, start code 9D 01 2A, then two 16-bit
\* values, each a 14-bit dimension under a 2-bit scale
PayloadVP8(w, h, scale) ==
  <<16, 2, 0, 157, 1, 42>> \o U16LE(w + scale * 16384) \o U16LE(h + scale * 16384) \o <<0, 0>>

\* VP8L bit field as the parser lays it out: width-1 in bits 0..13, height-1 in 14..27
PayloadVP8L(w, h) == U32LE((w - 1) + (h - 1) * 16384) \o <<0, 0>>

RiffHeader(size) == TagRIFF \o U32LE(size) \o TagWEBP

\* a chunk whose header declares `declared` bytes and which holds `payload`
Chunk(tag, declared, payload) == tag \o U32LE(declared) \o payload

\* ------------------------------------------------------------ state

VARIABLES
  Image,        \* TRUE: Pillow is installed (`Image is not None`)
  pin,          \* the file a parser run is given: name, bytes, what Pillow does with it
  manual,       \* what read_image_size did with pin
  resolved,     \* what get_image_dimensions did with pin
  jpc,          \* the JPEG scan, step by step: "open", "scan" or "done"
  jpos,         \* its file offset
  jres,         \* its outcome once done
  jsof,         \* it met a start-of-frame marker code
  skip_thumbs,  \* --skip-thumbs
  snapshot,     \* the files on disk before the first build
  disk,         \* the files on disk: path -> file
  pc,           \* "idle", "build", "built", "written" or "aborted" (the build raised)
  queue,        \* sorted(photos_dir.iterdir()) still to visit
  items,        \* the GalleryItem list of the running build
  json_text,    \* what write_gallery_json serialized
  run,          \* 1: first build, 2: the build run again
  prev_json     \* the first build's json_text

parseVars == <<pin, manual, resolved>>

jpegVars == <<jpc, jpos, jres, jsof>>

buildVars == <<skip_thumbs, snapshot, disk, pc, queue, items, json_text, run, prev_json>>

vars == <<Image, parseVars, jpegVars, buildVars>>

\* ------------------------------------------------------------ parser inputs

MaxJpegBody == 4

JpegAlphabet == {255, 192, 224, 0, 3}

RECURSIVE SeqsUpTo(_, _)
\* every sequence over S of length at most n
SeqsUpTo(S, n) ==
  IF n = 0 THEN {<<>>}
  ELSE LET shorter == SeqsUpTo(S, n - 1)
       IN  shorter \cup {Append(t, x) : t \in {u \in shorter : Len(u) = n - 1}, x \in S}

\* the images the well-formed files describe, as <<width, height>>
LogicalDims == {<<1, 1>>, <<300, 200>>}

NameJpg  == <<97, 46, 106, 112, 103>>          \* a.jpg
NameJPEG == <<98, 46, 74, 80, 69, 71>>         \* b.JPEG
NamePng  == <<112, 46, 112, 110, 103>>         \* p.png
NamePNG  == <<80, 46, 80, 78, 71>>             \* P.PNG
NameWebp == <<119, 46, 119, 101, 98, 112>>     \* w.webp
NameGif  == <<103, 46, 103, 105, 102>>         \* g.gif

NoMeta == [fmt |-> "", sigok |-> FALSE, tag |-> <<>>, declared |-> 0, avail |-> 0,
           w |-> 0, h |-> 0, scale |-> 0]

\* JPEG streams: a start-of-image marker (or not), any bytes of the alphabet,
\* then nothing or a whole start-of-frame segment
JpegInputs ==
  { [name |-> name, data |-> soi \o body \o tail.bytes,
     meta |-> [NoMeta EXCEPT !.fmt = "jpeg", !.sigok = (soi = JPEG_SOI),
                             !.w = tail.w, !.h = tail.h]] :
      name \in {NameJpg, NameJPEG},
      soi \in {JPEG_SOI, <<255, 217>>},
      body \in SeqsUpTo(JpegAlphabet, MaxJpegBody),
      tail \in {[bytes |-> <<>>, w |-> 0, h |-> 0],
                [bytes |-> JpegSof(194, 300, 200), w |-> 300, h |-> 200]} }

BadPngSignature == <<137, 80, 78, 71, 13, 10, 26, 11>>

\* PNG files cut to every length from 0 to the whole 25 bytes
PngInputs ==
  { [name |-> name, data |-> Take(PngFile(sig, d[1], d[2]), n),
     meta |-> [NoMeta EXCEPT !.fmt = "png", !.sigok = (sig = PNG_SIGNATURE),
                             !.avail = n, !.w = d[1], !.h = d[2]]] :
      name \in {NamePng, NamePNG},
      sig \in {PNG_SIGNATURE, BadPngSignature},
      d \in LogicalDims \cup {<<0, 5>>},
      n \in 0..25 }

TagJUNK == <<74, 85, 78, 75>>

MaxPayload == 12

WebpPayload(tag, w, h, scale) ==
  IF tag = TagVP8X THEN PayloadVP8X(w, h) \o <<0, 0>>
  ELSE IF tag = TagVP8 THEN PayloadVP8(w, h, scale)
  ELSE IF tag = TagVP8L THEN PayloadVP8L(w, h) \o <<0, 0, 0, 0, 0, 0>>
  ELSE <<1, 2, 3, 4, 5, 6, 7, 8, 9, 10, 11, 12>>

\* WebP files: a RIFF header (or a wrong one), nothing or one whole odd-sized
\* unrecognized chunk with its padding byte, then a chunk that declares
\* `declared` bytes and holds `avail` bytes of a 12-byte payload
WebpInputs ==
  { [name |-> NameWebp,
     data |-> hdr \o pre \o Chunk(tag, declared, Take(WebpPayload(tag, d[1], d[2], scale), avail)),
     meta |-> [NoMeta EXCEPT !.fmt = "webp", !.sigok = (hdr = RiffHeader(64)),
                             !.tag = tag, !.declared = declared,
                             !.avail = Min(avail, 12),
                             !.w = d[1], !.h = d[2], !.scale = scale]] :
      hdr \in {RiffHeader(64), TagRIFF \o U32LE(64) \o TagRIFF},
      pre \in {<<>>, Chunk(TagJUNK, 1, <<7, 0>>)},
      tag \in {TagVP8X, TagVP8, TagVP8L, TagJUNK},
      declared \in {5, 10, 12, 20},
      avail \in 0..MaxPayload,
      d \in LogicalDims,
      scale \in {0, 1, 3} }

OtherInputs == { [name |-> NameGif, data |-> <<71, 73, 70>>, meta |-> NoMeta] }

ParseInputs == JpegInputs \cup PngInputs \cup WebpInputs \cup OtherInputs

\* ------------------------------------------------------------ parser runs

\* no build is running and the disk is empty
BuildIdle ==
  /\ skip_thumbs = FALSE
  /\ snapshot = <<>> /\ disk = <<>>
  /\ pc = "idle" /\ queue = <<>> /\ items = <<>> /\ json_text = <<>>
  /\ run = 1 /\ prev_json = <<>>

NotRun == Raise("(not run)")

\* A file, and the environment it is read in: Pillow missing, or installed and
\* either failing on the file or reporting the dimensions it encodes
InitParse ==
  /\ \E f \in ParseInputs, have \in BOOLEAN, opens \in BOOLEAN :
       /\ (opens => have /\ f.meta.w > 0)
       /\ Image = have
       /\ pin = [name |-> f.name, data |-> f.data, meta |-> f.meta,
                 pil |-> IF opens THEN PilOk(f.meta.w, f.meta.h) ELSE PilRaise]
  /\ manual = NotRun
  /\ resolved = [res |-> NotRun, manual_called |-> FALSE]
  /\ jpc = "open" /\ jpos = 0 /\ jres = NotRun /\ jsof = FALSE
  /\ BuildIdle

\* read_image_size(path)
ReadImageSize ==
  /\ manual = NotRun
  /\ manual' = read_image_size(pin.name, pin.data)
  /\ UNCHANGED <<Image, pin, resolved, jpegVars, buildVars>>

\* get_image_dimensions(path)
GetImageDimensions ==
  /\ resolved.res = NotRun
  /\ resolved' = get_image_dimensions(Image, pin.pil, pin.name, pin.data)
  /\ UNCHANGED <<Image, pin, manual, jpegVars, buildVars>>

NextParse == ReadImageSize \/ GetImageDimensions

SpecParse == InitParse /\ [][NextParse]_vars

\* C4: a .png file that starts with the 8-byte signature and is shorter than
\* 24 bytes makes read_image_size fail; it returns no width and height.
C4_PngTruncatedFails ==
  (manual # NotRun /\ pin.meta.fmt = "png" /\ pin.meta.sigok
     /\ Len(pin.data) >= 8 /\ Len(pin.data) < 24)
  => ~manual.ok

\* C5: with Pillow missing or failing on the file, get_image_dimensions ends
\* exactly as read_image_size does on it; with Pillow opening the file, its
\* dimensions are returned and read_image_size is not called; a failure reaches
\* the caller only when read_image_size failed.
C5_FallbackChain ==
  resolved.res # NotRun =>
    /\ (Image /\ pin.pil.ok) =>
         resolved.res = Ok(pin.pil.w, pin.pil.h) /\ ~resolved.manual_called
    /\ (~Image \/ ~pin.pil.ok) =>
         resolved.manual_called /\ (manual # NotRun => resolved.res = manual)
    /\ ~resolved.res.ok =>
         resolved.manual_called /\ (manual # NotRun => ~manual.ok)

\* C5 witness: Pillow is installed and fails on the file, and the manual
\* parser's dimensions are what the resolver returned
C5_Witness ==
  /\ Image /\ ~pin.pil.ok
  /\ manual # NotRun /\ manual.ok
  /\ resolved.res = manual /\ resolved.manual_called

\* what the resolver returns for the VP8X encoding of a logical image
Vp8xReference(w, h) ==
  read_image_size(NameWebp, RiffHeader(64) \o Chunk(TagVP8X, 10, PayloadVP8X(w, h)))

\* C8: for a whole `VP8 ` chunk the returned width and height are the low 14
\* bits of the two 16-bit values (below 2^14, whatever the scale bits), the
\* same as for the VP8X encoding of the same image.
C8_Vp8ScaleMasked ==
  (manual # NotRun /\ pin.meta.fmt = "webp" /\ pin.meta.sigok
     /\ pin.meta.tag = TagVP8 /\ pin.meta.declared = 12 /\ pin.meta.avail = 12)
  => /\ manual.ok
     /\ manual.w < 16384 /\ manual.h < 16384
     /\ manual = Vp8xReference(pin.meta.w, pin.meta.h)

\* C9: a chunk whose declared size plus padding exceeds the bytes left in the
\* stream makes the WebP parser fail, whatever its tag.
C9_ChunkPastEndFails ==
  (manual # NotRun /\ pin.meta.fmt = "webp" /\ pin.meta.sigok
     /\ pin.meta.declared + (pin.meta.declared % 2) > pin.meta.avail)
  => ~manual.ok

\* ------------------------------------------------------------ JPEG scan, stepwise
\* read_image_size on a .jpg file, one loop iteration per step.

InitJpeg ==
  /\ \E f \in JpegInputs :
       pin = [name |-> f.name, data |-> f.data, meta |-> f.meta, pil |-> PilRaise]
  /\ Image = FALSE
  /\ manual = NotRun
  /\ resolved = [res |-> NotRun, manual_called |-> FALSE]
  /\ jpc = "open" /\ jpos = 0 /\ jres = NotRun /\ jsof = FALSE
  /\ BuildIdle

\* `if fp.read(2) != JPEG_SOI: raise`
JpegOpen ==
  /\ jpc = "open"
  /\ IF Read(pin.data, 0, 2) # JPEG_SOI
       THEN jpc' = "done" /\ jres' = Raise(ErrNotJpeg) /\ jpos' = jpos
       ELSE jpc' = "scan" /\ jres' = jres /\ jpos' = 2
  /\ UNCHANGED <<Image, parseVars, jsof, buildVars>>

\* one pass through the body of `while True`
JpegStep ==
  /\ jpc = "scan"
  /\ LET it == JpegIteration(pin.data, jpos)
     IN  IF it.done
           THEN jpc' = "done" /\ jres' = it.res /\ jsof' = it.sof /\ jpos' = jpos
           ELSE jpc' = "scan" /\ jres' = jres /\ jsof' = jsof /\ jpos' = it.pos
  /\ UNCHANGED <<Image, parseVars, buildVars>>

NextJpeg == JpegOpen \/ JpegStep

\* the interpreter keeps running the loop: a step that can be taken is taken
SpecJpeg == InitJpeg /\ [][NextJpeg]_vars /\ WF_vars(NextJpeg)

\* C10: the JPEG parser terminates on every stream, and a stream that begins
\* with FF D8 and whose marker scan ends without meeting a start-of-frame
\* marker code fails with 'Could not determine JPEG dimensions' (no dimensions).
C10_JpegTerminatesNotFound ==
  /\ <>(jpc = "done")
  /\ [](jpc = "done" /\ pin.meta.sigok /\ ~jsof => jres = Raise(ErrJpegDims))

\* C10 witness: a scan that skipped a non-start-of-frame segment by its length
\* and then ran into the end of the stream
C10_Witness ==
  /\ jpc = "done" /\ pin.meta.sigok /\ ~jsof
  /\ jres = Raise(ErrJpegDims)
  /\ Len(pin.data) >= 7
  /\ SubSeq(pin.data, 3, 6) = <<255, 224, 0, 3>>
  /\ jpos >= 7

\* ------------------------------------------------------------ disk and paths
\* A path is [parent, name], both ASCII; the disk maps the paths that exist to
\* files: [kind, data, fmt, pil, save].  pil is what Image.open does with the
\* file, fmt the format Pillow detects, save what thumbnail-and-save does with it.

Slash == <<47>>

PhotosDir == <<112, 104, 111, 116, 111, 115>>                  \* photos

NameThumbs == <<116, 104, 117, 109, 98, 115>>                  \* thumbs

ThumbsDir == PhotosDir \o Slash \o NameThumbs                  \* photos/thumbs

NameGalleryJson == <<103, 97, 108, 108, 101, 114, 121, 46, 106, 115, 111, 110>>

PathOf(dir, name) == [parent |-> dir, name |-> name]

\* path.relative_to(photos_dir.parent).as_posix()
AsPosix(path) == path.parent \o Slash \o path.name

\* Path.exists()
Exists(d, path) == path \in DOMAIN d

\* Path.is_file()
IsFile(d, path) == Exists(d, path) /\ d[path].kind = "file"

\* photos_dir.iterdir(): the entries directly in the directory
IterDir(d, dir) == {path \in DOMAIN d : path.parent = dir}

RECURSIVE LexLess(_, _)
\* str < str, by code point
LexLess(a, b) ==
  IF b = <<>> THEN FALSE
  ELSE IF a = <<>> THEN TRUE
  ELSE IF a[1] # b[1] THEN a[1] < b[1]
  ELSE LexLess(Tail(a), Tail(b))

\* Path < Path: by the parts of the path
PathLess(p, q) ==
  IF p.parent # q.parent THEN LexLess(p.parent \o Slash, q.parent \o Slash)
  ELSE LexLess(p.name, q.name)

RECURSIVE SortedReversed(_)
\* mutant: the entries in the reverse of sorted order (a listing left unsorted)
SortedReversed(S) ==
  IF S = {} THEN <<>>
  ELSE LET last == CHOOSE p \in S : \A q \in S \ {p} : PathLess(q, p)
       IN  <<last>> \o SortedReversed(S \ {last})

RECURSIVE Sorted(_)
\* sorted(paths)
Sorted(S) ==
  IF S = {} THEN <<>>
  ELSE LET first == CHOOSE p \in S : \A q \in S \ {p} : PathLess(p, q)
       IN  <<first>> \o Sorted(S \ {first})

Dir == [kind |-> "dir", data |-> <<>>, fmt |-> "", pil |-> PilRaise, save |-> ""]

File(data, fmt, pil, save) ==
  [kind |-> "file", data |-> data, fmt |-> fmt, pil |-> pil, save |-> save]

\* ------------------------------------------------------------ thumbnails

DefaultThumbSize == 1200

\* Image.thumbnail((max_edge, max_edge)): the size kept when it fits, else the
\* longer edge cut to max_edge and the other scaled with it, at least 1
ThumbnailSize(w, h, max_edge) ==
  IF w <= max_edge /\ h <= max_edge THEN <<w, h>>
  ELSE IF w >= h THEN <<max_edge, Max((h * max_edge) \div w, 1)>>
  ELSE <<Max((w * max_edge) \div h, 1), max_edge>>

\* a whole JPEG file: SOI, an APP0 segment, a start-of-frame segment
JpegFile(w, h) == JPEG_SOI \o JpegSegment(224, 4, <<0, 0>>) \o JpegSof(192, w, h)

\* the file image.save(destination, format=img.format or 'JPEG') writes
SavedThumb(fmt, w, h) ==
  File(IF fmt = "PNG" THEN PngFile(PNG_SIGNATURE, w, h) ELSE JpegFile(w, h),
       IF fmt = "PNG" THEN "PNG" ELSE "JPEG", PilOk(w, h), "ok")

\* what a save that raised part-way leaves at the destination
BrokenThumb == File(<<>>, "", PilRaise, "")

\* generate_thumbnail(source, destination, max_edge) with Pillow installed:
\* [dims: <<>> (None) or <<(w, h)>>, disk: the disk afterwards]
generate_thumbnail(d, source, destination, max_edge) ==
  LET f == d[source]
      size == ThumbnailSize(f.pil.w, f.pil.h, max_edge)
  IN  IF ~f.pil.ok THEN [dims |-> <<>>, disk |-> d]
      ELSE IF f.save = "ok"
        THEN [dims |-> <<size>>,
              disk |-> [q \in DOMAIN d \cup {destination} |->
                          IF q = destination THEN SavedThumb(f.fmt, size[1], size[2])
                          ELSE d[q]]]
      ELSE IF f.save = "partial"
        THEN [dims |-> <<>>,
              disk |-> [q \in DOMAIN d \cup {destination} |->
                          IF q = destination THEN BrokenThumb ELSE d[q]]]
      ELSE [dims |-> <<>>, disk |-> d]

\* ------------------------------------------------------------ manifest

\* Optional[...]: None is <<>>, a value v is <<v>>
None == <<>>

Some(v) == <<v>>

GalleryItem(src, w, h, alt, thumb, thumbWidth, thumbHeight, caption) ==
  [src |-> src, w |-> w, h |-> h, alt |-> alt, thumb |-> thumb,
   thumbWidth |-> thumbWidth, thumbHeight |-> thumbHeight, caption |-> caption]

\* truthiness of an Optional[int]: neither None nor 0
TruthyInt(o) == o # None /\ o[1] # 0

\* truthiness of an Optional[str]: neither None nor ''
TruthyStr(o) == o # None /\ o[1] # <<>>

\* GalleryItem.to_dict: the dict, keys in insertion order src, w, h, alt,
\* [thumb], [thumbWidth, thumbHeight], [caption]
to_dict(item) ==
  LET base == [src |-> item.src, w |-> item.w, h |-> item.h, alt |-> item.alt]
      d1 == IF TruthyStr(item.thumb) THEN base @@ ("thumb" :> item.thumb[1]) ELSE base
      d2 == IF TruthyInt(item.thumbWidth) /\ TruthyInt(item.thumbHeight)
              THEN d1 @@ ("thumbWidth" :> item.thumbWidth[1])
                      @@ ("thumbHeight" :> item.thumbHeight[1])
              ELSE d1
  IN  IF TruthyStr(item.caption) THEN d2 @@ ("caption" :> item.caption[1]) ELSE d2

\* mutant: whether the thumbnail file exists is looked up before the attempt
\* to generate it
ThumbExistsBefore(before, after, thumb_path) == Exists(before, thumb_path)

\* `thumb_path.exists()` on line 252: asked after generate_thumbnail has run
ThumbExists(before, after, thumb_path) == Exists(after, thumb_path)

\* The body of the `for photo in ...` loop of build_gallery_items.
\* [kind: "skip" (continue), "raise" (get_image_dimensions raised) or "item",
\*  item, disk: the disk afterwards]
BuildOne(d, have_pillow, skip, photos_dir, thumbs_dir, max_edge, photo) ==
  LET dims == get_image_dimensions(have_pillow, d[photo].pil, photo.name, d[photo].data).res
      thumb_path == PathOf(thumbs_dir, photo.name)
      gen == IF have_pillow /\ ~skip
               THEN generate_thumbnail(d, photo, thumb_path, max_edge)
               ELSE [dims |-> None, disk |-> d]
      reuse == gen.dims = None /\ ThumbExists(d, gen.disk, thumb_path)
      old == get_image_dimensions(have_pillow, gen.disk[thumb_path].pil,
                                  thumb_path.name, gen.disk[thumb_path].data).res
      thumb_rel == IF gen.dims # None \/ reuse THEN Some(AsPosix(thumb_path)) ELSE None
      thumb_width == IF gen.dims # None THEN Some(gen.dims[1][1])
                     ELSE IF reuse /\ old.ok THEN Some(old.w) ELSE None
      thumb_height == IF gen.dims # None THEN Some(gen.dims[1][2])
                      ELSE IF reuse /\ old.ok THEN Some(old.h) ELSE None
      alt_text == describe_alt(photo.name)
      none == GalleryItem(<<>>, 0, 0, <<>>, None, None, None, None)
  IN  IF photo.parent = thumbs_dir THEN [kind |-> "skip", item |-> none, disk |-> d]
      ELSE IF ~IsFile(d, photo) THEN [kind |-> "skip", item |-> none, disk |-> d]
      ELSE IF Lower(Suffix(photo.name)) \notin SUPPORTED_EXTENSIONS
        THEN [kind |-> "skip", item |-> none, disk |-> d]
      ELSE IF ~dims.ok THEN [kind |-> "raise", item |-> none, disk |-> d]
      ELSE [kind |-> "item",
            item |-> GalleryItem(AsPosix(photo), dims.w, dims.h, alt_text,
                                 thumb_rel, thumb_width, thumb_height, Some(alt_text)),
            disk |-> gen.disk]

\* ------------------------------------------------------------ build runs

MaxFiles == 2

NameBPng == <<98, 46, 112, 110, 103>>          \* b.png
NameCPNG == <<67, 46, 80, 78, 71>>             \* C.PNG
NameTxt  == <<110, 46, 116, 120, 116>>         \* n.txt

PhotoNames == {NameJpg, NameBPng, NameCPNG}

\* what a photo can hold: a PNG Pillow opens (and saves a thumbnail of, or
\* fails to, cleanly or part-way), the same PNG with Pillow unable to open it,
\* a PNG cut to 20 bytes, a JPEG, and bytes of no format
PhotoFiles ==
  { File(PngFile(PNG_SIGNATURE, 2400, 1200), "PNG", PilOk(2400, 1200), sv) :
      sv \in {"ok", "fail", "partial"} }
  \cup { File(PngFile(PNG_SIGNATURE, 2400, 1200), "PNG", PilRaise, ""),
         File(Take(PngFile(PNG_SIGNATURE, 300, 200), 20), "", PilRaise, ""),
         File(JpegFile(300, 200), "JPEG", PilOk(300, 200), "ok"),
         File(<<1, 2, 3>>, "", PilRaise, "") }

\* a thumbnail left by an earlier run: a PNG of 150x100, or a broken file
OldThumbs == { SavedThumb("PNG", 150, 100), BrokenThumb }

\* the disk holding the given photos-directory entries and old thumbnails,
\* beside the thumbs directory and a text file
DiskOf(entries, old) ==
  LET paths == {PathOf(PhotosDir, NameThumbs), PathOf(PhotosDir, NameTxt)}
                 \cup {PathOf(PhotosDir, n) : n \in DOMAIN entries}
                 \cup {PathOf(ThumbsDir, n) : n \in DOMAIN old}
  IN  [q \in paths |->
         IF q.parent = ThumbsDir THEN old[q.name]
         ELSE IF q.name = NameThumbs THEN Dir
         ELSE IF q.name = NameTxt THEN File(<<104, 105>>, "", PilRaise, "")
         ELSE entries[q.name]]

\* main() after ensure_directories and the copies: any directory content of at
\* most MaxFiles photo entries, with or without Pillow, with or without
\* --skip-thumbs
Init ==
  /\ Image \in BOOLEAN
  /\ skip_thumbs \in BOOLEAN
  /\ \E names \in SUBSET PhotoNames :
       /\ Cardinality(names) <= MaxFiles
       /\ \E entries \in [names -> PhotoFiles \cup {Dir}] :
            \E thumbed \in SUBSET {n \in names : entries[n].kind = "file"} :
              \E old \in [thumbed -> OldThumbs] :
                disk = DiskOf(entries, old)
  /\ snapshot = disk
  /\ pc = "idle" /\ queue = <<>> /\ items = <<>> /\ json_text = <<>>
  /\ run = 1 /\ prev_json = <<>>
  /\ pin = [name |-> <<>>, data |-> <<>>, meta |-> NoMeta, pil |-> PilRaise]
  /\ manual = NotRun
  /\ resolved = [res |-> NotRun, manual_called |-> FALSE]
  /\ jpc = "open" /\ jpos = 0 /\ jres = NotRun /\ jsof = FALSE

\* build_gallery_items: `for photo in sorted(photos_dir.iterdir())`
StartBuild ==
  /\ pc = "idle"
  /\ queue' = Sorted(IterDir(disk, PhotosDir))
  /\ items' = <<>>
  /\ pc' = "build"
  /\ UNCHANGED <<Image, parseVars, jpegVars, skip_thumbs, snapshot, disk, json_text,
                 run, prev_json>>

\* one pass through the loop body; an exception leaves the build (and main)
BuildStep ==
  /\ pc = "build" /\ queue # <<>>
  /\ LET r == BuildOne(disk, Image, skip_thumbs, PhotosDir, ThumbsDir,
                       DefaultThumbSize, Head(queue))
     IN  IF r.kind = "raise"
           THEN pc' = "aborted" /\ UNCHANGED <<queue, items, disk>>
           ELSE /\ pc' = pc
                /\ queue' = Tail(queue)
                /\ items' = IF r.kind = "item" THEN Append(items, r.item) ELSE items
                /\ disk' = r.disk
  /\ UNCHANGED <<Image, parseVars, jpegVars, skip_thumbs, snapshot, json_text,
                 run, prev_json>>

\* `return items`
BuildReturn ==
  /\ pc = "build" /\ queue = <<>>
  /\ pc' = "built"
  /\ UNCHANGED <<Image, parseVars, jpegVars, skip_thumbs, snapshot, disk, queue,
                 items, json_text, run, prev_json>>

\* write_gallery_json: the items' dicts dumped, and photos/gallery.json written
WriteGalleryJson ==
  /\ pc = "built"
  /\ json_text' = [i \in 1..Len(items) |-> to_dict(items[i])]
  /\ disk' = [q \in DOMAIN disk \cup {PathOf(PhotosDir, NameGalleryJson)} |->
                IF q = PathOf(PhotosDir, NameGalleryJson)
                  THEN File(<<91, 93>>, "", PilRaise, "")
                  ELSE disk[q]]
  /\ pc' = "written"
  /\ UNCHANGED <<Image, parseVars, jpegVars, skip_thumbs, snapshot, queue, items,
                 run, prev_json>>

\* the script run a second time, with the same arguments, on what the first
\* run left on disk
Rerun ==
  /\ pc = "written" /\ run = 1
  /\ prev_json' = json_text
  /\ run' = 2
  /\ pc' = "idle" /\ items' = <<>> /\ json_text' = <<>>
  /\ UNCHANGED <<Image, parseVars, jpegVars, skip_thumbs, snapshot, disk, queue>>

Next == StartBuild \/ BuildStep \/ BuildReturn \/ WriteGalleryJson \/ Rerun

Spec == Init /\ [][Next]_vars

\* ------------------------------------------------------------ manifest claims

\* the regular files directly in the photos directory with a supported extension
Candidates(d) ==
  {photo \in IterDir(d, PhotosDir) :
     IsFile(d, photo) /\ Lower(Suffix(photo.name)) \in SUPPORTED_EXTENSIONS}

\* the candidate's dimensions can be resolved
Resolvable(d, photo) ==
  get_image_dimensions(Image, d[photo].pil, photo.name, d[photo].data).res.ok

Completed == pc \in {"built", "written"}

\* C1: a candidate whose dimensions cannot be resolved never aborts the build:
\* the build returns, and its manifest holds an item for every candidate whose
\* dimensions can be resolved.
C1_FailuresIsolated ==
  /\ pc # "aborted"
  /\ Completed =>
       \A photo \in Candidates(snapshot) :
         Resolvable(snapshot, photo) =>
           \E i \in 1..Len(items) : items[i].src = AsPosix(photo)

\* C2: in every item and every serialized dict, a thumb comes with both
\* thumbWidth and thumbHeight, and the two are present together or not at all.
C2_ThumbHasDimensions ==
  /\ \A i \in 1..Len(items) :
       /\ items[i].thumb # None =>
            items[i].thumbWidth # None /\ items[i].thumbHeight # None
       /\ (items[i].thumbWidth = None) <=> (items[i].thumbHeight = None)
  /\ \A i \in 1..Len(json_text) :
       /\ "thumb" \in DOMAIN json_text[i] =>
            {"thumbWidth", "thumbHeight"} \subseteq DOMAIN json_text[i]
       /\ ("thumbWidth" \in DOMAIN json_text[i]) <=> ("thumbHeight" \in DOMAIN json_text[i])

\* C3: every item of a file that Pillow is missing for, or fails on, has
\* w > 0 and h > 0.
C3_PositiveDimensions ==
  \A i \in 1..Len(items) :
    \A photo \in Candidates(snapshot) :
      (items[i].src = AsPosix(photo) /\ (~Image \/ ~snapshot[photo].pil.ok))
      => items[i].w > 0 /\ items[i].h > 0

\* C6: a completed build's manifest holds exactly one item per candidate (a
\* regular file directly in the photos directory with a supported extension,
\* whatever its case), nothing else, in increasing order of path; the src
\* values of the serialized manifest are the same list.
C6_ManifestIsSortedCandidates ==
  Completed =>
    /\ Len(items) = Cardinality(Candidates(disk))
    /\ \A photo \in Candidates(disk) : \E i \in 1..Len(items) : items[i].src = AsPosix(photo)
    /\ \A i \in 1..Len(items) : \E photo \in Candidates(disk) : items[i].src = AsPosix(photo)
    /\ \A i, j \in 1..Len(items) : i < j => LexLess(items[i].src, items[j].src)
    /\ pc = "written" =>
         [i \in 1..Len(json_text) |-> json_text[i].src] = [i \in 1..Len(items) |-> items[i].src]

\* C6 witness: two photos listed with the upper-case C.PNG first, beside a
\* directory, an unsupported file and thumbnails in the thumbs directory
C6_Witness ==
  /\ pc = "written"
  /\ Len(items) = 2
  /\ items[1].src = AsPosix(PathOf(PhotosDir, NameCPNG))
  /\ \E q \in DOMAIN disk : q.parent = ThumbsDir
  /\ \E q \in IterDir(disk, PhotosDir) : ~IsFile(disk, q)

\* C7: the build and serialization run twice on unchanged photos give the
\* same serialized manifest.
C7_Idempotent ==
  (run = 2 /\ pc = "written") => json_text = prev_json

\* C7 witness: the second run ended with the first run's manifest, which names
\* a thumbnail the first run created
C7_Witness ==
  /\ run = 2 /\ pc = "written"
  /\ json_text = prev_json
  /\ \E i \in 1..Len(json_text) : "thumb" \in DOMAIN json_text[i]
  /\ \E q \in DOMAIN disk \ DOMAIN snapshot : q.parent = ThumbsDir

====
